---- MODULE Spec2Model ----
(***************************************************************************)
(* Model of pdf-a11y-crawl.py: the crawl loop (crawl), the streaming       *)
(* download (download_pdf) and the per-document analysis pipeline          *)
(* (run_pdffonts, run_pdftotext, run_verapdf).                             *)
(*                                                                         *)
(* The web site and the three external tools are the environment: every    *)
(* response, chunk and tool outcome is drawn with \E at the step that      *)
(* consumes it.  Optional values (Python None) are modelled as <<>> and a  *)
(* present value x as <<x>>.  URLs are sequences of one-character strings  *)
(* so that the regular expression PDF_RE is computed, not assumed.         *)
(***************************************************************************)
EXTENDS Integers, Sequences, FiniteSets, TLC

----------------------------------------------------------------------------
(* Bounds of the model *)

\* longest link list a fetched page yields
MaxLinks == 2
\* PDF-shaped links the whole site offers in the crawl specification
MaxPdfLinks == 2
\* chunks a response body is streamed in
MaxChunks == 2
\* largest value of the --max-pages argument
MaxPagesArg == 3
\* value of the --max-bytes argument
MaxBytesArg == 3

----------------------------------------------------------------------------
(* Optional values *)

None == <<>>

Some(x) == <<x>>

Get(o) == o[1]

\* Python truthiness of an optional bool / optional int / optional string
TruthyBool(o) == o # None /\ Get(o) = TRUE

TruthyInt(o) == o # None /\ Get(o) # 0

TruthyStr(o) == o # None /\ Get(o) # ""

----------------------------------------------------------------------------
(* URLs *)

\* a URL is [scheme, netloc, rest], each a sequence of characters
Url(s, n, r) == [scheme |-> s, netloc |-> n, rest |-> r]

\* the characters of the URL as the string Python holds
UrlStr(u) == u.scheme \o <<":", "/", "/">> \o u.netloc \o u.rest

StartUrl == Url(<<"h">>, <<"a">>, <<"/">>)

PageP == Url(<<"h">>, <<"a">>, <<"/", "p">>)

PageR == Url(<<"h">>, <<"a">>, <<"/", "r">>)

\* a page on another host
PageX == Url(<<"h">>, <<"b">>, <<"/", "p">>)

\* a same-origin PDF
PdfD == Url(<<"h">>, <<"a">>, <<"/", "d", ".", "p", "d", "f">>)

\* a PDF under another scheme, upper case and with a query
PdfE == Url(<<"s">>, <<"a">>, <<"/", "e", ".", "P", "D", "F", "?", "x">>)

Urls == {StartUrl, PageP, PageR, PageX, PdfD, PdfE}

Lower(c) ==
    CASE c = "P" -> "p"
      [] c = "D" -> "d"
      [] c = "F" -> "f"
      [] OTHER -> c

\* PDF_RE = \.pdf(\?|#|$), IGNORECASE, searched anywhere in the URL
is_probably_pdf(u) ==
    LET s == UrlStr(u)
    IN \E i \in 1..Len(s) :
          /\ i + 3 <= Len(s)
          /\ s[i] = "."
          /\ Lower(s[i + 1]) = "p"
          /\ Lower(s[i + 2]) = "d"
          /\ Lower(s[i + 3]) = "f"
          /\ IF i + 3 = Len(s) THEN TRUE ELSE s[i + 4] \in {"?", "#"}

same_origin(a, b) == <<a.scheme, a.netloc>> = <<b.scheme, b.netloc>>

\* the local file name derived from the URL (a hash of the URL's text)
safe_filename_from_url(u) == <<"sha16">> \o UrlStr(u) \o <<".pdf">>

----------------------------------------------------------------------------
(* Texts *)

\* content of a file or of a chunk: a sequence of the bytes "1" and "2"
Bytes == {"1", "2"}

RECURSIVE Zeros(_)
Zeros(n) ==
    IF n = 0 THEN ""
    ELSE IF n % 2 = 0 THEN LET half == Zeros(n \div 2) IN half \o half
    ELSE "0" \o Zeros(n - 1)

RECURSIVE Cat(_)
Cat(bs) == IF bs = <<>> THEN "" ELSE Head(bs) \o Cat(Tail(bs))

\* a Python str of which the model needs the character class: text is the
\* string, hex says whether all its characters are in [0-9a-f]
Str(text, hex) == [text |-> text, hex |-> hex]

\* hashlib.sha256().hexdigest() of the bytes fed with update(): 64 hex
\* characters, modelled as the bytes followed by zeros (injective on Bytes)
hexdigest(h) == Str(Cat(h) \o Zeros(64 - Len(h)), TRUE)

\* re.fullmatch(r"[0-9a-f]{64}", s)
fullmatch_hex64(s) == s.hex /\ Len(s.text) = 64

\* mutant of AppendNote: the note replaces what the earlier stages left
ReplaceNote(note, more) == Some(more)

\* note = (note + "; " if note else "") + more
AppendNote(note, more) ==
    Some((IF TruthyStr(note) THEN Get(note) \o "; " ELSE "") \o more)

----------------------------------------------------------------------------
(* run_pdffonts *)

\* lines of pdffonts' output, as characters
LineHeader == <<"n", "a", "m", "e", " ", "t">>

LineHeaderCaps == <<"N", "a", "m", "e">>

LineDashes == <<"-", "-", "-", " ", "-">>

LineFont == <<"A", "r", "i", "a", "l">>

LineBlank == <<" ", " ">>

LowerN(c) == IF c = "N" THEN "n" ELSE c

\* ln.strip() is non-empty
StripNonEmpty(ln) == \E i \in 1..Len(ln) : ln[i] # " "

\* ln.lower().startswith("name")
StartsWithName(ln) ==
    /\ Len(ln) >= 4
    /\ <<LowerN(ln[1]), ln[2], ln[3], ln[4]>> = <<"n", "a", "m", "e">>

\* ln.startswith("---")
StartsWithDashes(ln) ==
    Len(ln) >= 3 /\ <<ln[1], ln[2], ln[3]>> = <<"-", "-", "-">>

IsFontRow(ln) ==
    StripNonEmpty(ln) /\ ~StartsWithName(ln) /\ ~StartsWithDashes(ln)

RECURSIVE CountFontRows(_)
CountFontRows(lines) ==
    IF lines = <<>> THEN 0
    ELSE (IF IsFontRow(Head(lines)) THEN 1 ELSE 0) + CountFontRows(Tail(lines))

\* what the pdffonts process does: kind is "missing" (shutil.which is
\* None), "ran" (with return code rc, stdout lines out, stderr text err),
\* "timeout" or "exception"
PdffontsOutcome(k, rc, out, err) == [kind |-> k, rc |-> rc, out |-> out, err |-> err]

PdffontsOutputs ==
    {<<>>, <<LineHeader, LineDashes>>, <<LineHeader, LineDashes, LineFont>>,
     <<LineHeaderCaps, LineDashes, LineFont, LineBlank, LineFont>>}

\* outcomes that need no readable file
PdffontsFailuresFull ==
    {PdffontsOutcome("missing", 0, <<>>, ""),
     PdffontsOutcome("ran", 1, <<>>, "Syntax Error"),
     PdffontsOutcome("timeout", 0, <<>>, ""),
     PdffontsOutcome("exception", 0, <<>>, "oserror")}

PdffontsFailuresLean == {PdffontsOutcome("ran", 1, <<>>, "Syntax Error")}

\* outcomes in which pdffonts opened the file and listed its fonts
PdffontsSuccessesFull == {PdffontsOutcome("ran", 0, out, "") : out \in PdffontsOutputs}

PdffontsSuccessesLean ==
    {PdffontsOutcome("ran", 0, <<LineHeader, LineDashes, LineFont>>, "")}

\* mutant of run_pdffonts: a failure of the tool is reported as a PDF
\* without fonts
run_pdffontsFailureIsNoFonts(o) ==
    IF o.kind = "ran" /\ o.rc = 0
    THEN [has |-> Some(CountFontRows(o.out) > 0),
          count |-> Some(CountFontRows(o.out)), note |-> None]
    ELSE [has |-> Some(FALSE), count |-> Some(0),
          note |-> Some("pdffonts failed: " \o o.err)]

\* returns (has_text_layer, fonts_count, error_note)
run_pdffonts(o) ==
    CASE o.kind = "missing" ->
           [has |-> None, count |-> None,
            note |-> Some("pdffonts not installed (poppler-utils missing)")]
      [] o.kind = "timeout" ->
           [has |-> None, count |-> None, note |-> Some("pdffonts timed out")]
      [] o.kind = "exception" ->
           [has |-> None, count |-> None,
            note |-> Some("pdffonts exception: " \o o.err)]
      [] o.kind = "ran" /\ o.rc # 0 ->
           [has |-> None, count |-> None,
            note |-> Some("pdffonts failed: " \o o.err)]
      [] OTHER ->
           [has |-> Some(CountFontRows(o.out) > 0),
            count |-> Some(CountFontRows(o.out)), note |-> None]

----------------------------------------------------------------------------
(* run_pdftotext *)

PdftotextOutcome(k, rc, err) == [kind |-> k, rc |-> rc, err |-> err]

PdftotextOutcomesFull ==
    {PdftotextOutcome("missing", 0, ""),
     PdftotextOutcome("ran", 1, "Syntax Error"),
     PdftotextOutcome("ran", 0, ""),
     PdftotextOutcome("exception", 0, "timed out")}

PdftotextOutcomesLean == {PdftotextOutcome("ran", 0, "")}

\* returns (ok, err)
run_pdftotext(o) ==
    CASE o.kind = "missing" -> [ok |-> FALSE, err |-> Some("pdftotext not installed")]
      [] o.kind = "exception" -> [ok |-> FALSE, err |-> Some(o.err)]
      [] o.kind = "ran" /\ o.rc # 0 -> [ok |-> FALSE, err |-> Some(o.err)]
      [] OTHER -> [ok |-> TRUE, err |-> None]

\* txt_p.read_text(): the text read back, as (characters, UTF-8 bytes), or
\* a failure to read
ReadOutcome(ok, chars, bytes) == [ok |-> ok, chars |-> chars, bytes |-> bytes]

ReadOutcomesFull ==
    {ReadOutcome(FALSE, 0, 0), ReadOutcome(TRUE, 0, 0), ReadOutcome(TRUE, 1, 2)}

ReadOutcomesLean == {ReadOutcome(TRUE, 1, 2)}

----------------------------------------------------------------------------
(* run_verapdf *)

\* the words veraPDF prints; out.lower() contains "pass" / "fail"
WordHasPass(w) == w \in {"PASS", "Passed"}

WordHasFail(w) == w \in {"FAIL", "failed"}

VerapdfOutcome(k, rc, out, err) == [kind |-> k, rc |-> rc, out |-> out, err |-> err]

\* outcomes that need no readable file
VerapdfFailuresFull ==
    {VerapdfOutcome("missing", 0, <<>>, <<>>),
     VerapdfOutcome("timeout", 0, <<>>, <<>>),
     VerapdfOutcome("exception", 0, <<>>, <<>>),
     VerapdfOutcome("ran", 1, <<>>, <<"done">>)}

VerapdfFailuresLean == {VerapdfOutcome("ran", 1, <<>>, <<"done">>)}

\* outcomes in which veraPDF opened the file and validated it
VerapdfVerdictsFull ==
    {VerapdfOutcome("ran", rc, out, err) :
        rc \in {0, 1},
        out \in {<<>>, <<"PASS">>, <<"done", "FAIL">>, <<"Passed", "done">>},
        err \in {<<>>, <<"failed">>}}

VerapdfVerdictsLean == {VerapdfOutcome("ran", 0, <<"PASS">>, <<>>)}

\* mutant of run_verapdf: "pass" in the output decides before "fail" is
\* looked for
run_verapdfPassWins(o) ==
    LET out == o.out \o o.err
        has_pass == \E i \in 1..Len(out) : WordHasPass(out[i])
        has_fail == \E i \in 1..Len(out) : WordHasFail(out[i])
        passed == IF has_pass THEN Some(TRUE)
                  ELSE IF has_fail THEN Some(FALSE) ELSE None
    IN CASE o.kind = "missing" -> [ran |-> FALSE, passed |-> None, note |-> None]
         [] o.kind = "timeout" ->
              [ran |-> TRUE, passed |-> None, note |-> Some("verapdf timed out")]
         [] o.kind = "exception" ->
              [ran |-> TRUE, passed |-> None,
               note |-> Some("verapdf exception: oserror")]
         [] OTHER ->
              [ran |-> TRUE, passed |-> passed,
               note |-> IF o.rc # 0 /\ passed = None
                        THEN Some("verapdf return code " \o ToString(o.rc))
                        ELSE None]

\* returns (ran, passed, note)
run_verapdf(o) ==
    LET out == o.out \o o.err
        has_pass == \E i \in 1..Len(out) : WordHasPass(out[i])
        has_fail == \E i \in 1..Len(out) : WordHasFail(out[i])
        passed1 == IF has_pass /\ ~has_fail THEN Some(TRUE) ELSE None
        passed == IF has_fail THEN Some(FALSE) ELSE passed1
    IN CASE o.kind = "missing" -> [ran |-> FALSE, passed |-> None, note |-> None]
         [] o.kind = "timeout" ->
              [ran |-> TRUE, passed |-> None, note |-> Some("verapdf timed out")]
         [] o.kind = "exception" ->
              [ran |-> TRUE, passed |-> None,
               note |-> Some("verapdf exception: oserror")]
         [] OTHER ->
              [ran |-> TRUE, passed |-> passed,
               note |-> IF o.rc # 0 /\ passed = None
                        THEN Some("verapdf return code " \o ToString(o.rc))
                        ELSE None]

----------------------------------------------------------------------------
(* State *)

VARIABLES
    \* arguments of crawl()
    recursive, max_pages, max_bytes, include_external_pdfs, run_vera,
    pdftotext, dry_run,
    \* crawl(): the sets, the frontier and the result list
    seen_pages, seen_pdfs, queue, results,
    \* crawl(): position in the code, current page, its links, index of the
    \* next link of the for loop
    pc, page_url, links, li,
    \* crawl(): the locals of the pipeline of the current link
    loc,
    \* download_pdf(): status, ct, total, h, and what the response has yet to
    \* deliver: the chunks of iter_content and how the stream ends
    dl,
    \* the files under out_dir, by path: None or Some(content)
    fs,
    \* the environment: site.urls are the URLs the pages of the site link
    \* to, site.pdf_left is the number of PDF-shaped links the site still
    \* has to offer, site.rich selects the full sets of responses and tool
    \* outcomes, site.twice says whether the crawl is run a second time over
    \* the same site
    site,
    \* the answers the site and the tools gave to the first crawl, in the
    \* order of the requests, for the second crawl to get them again
    tape,
    \* which of the two crawls runs, and what the first one fetched and
    \* returned
    run, first,
    \* history: pages fetched in order; for each call of download_pdf in
    \* order, its URL and whether the response was a complete body within
    \* the size cap; number of calls of run_pdffonts, run_pdftotext and
    \* run_verapdf; what the fetch of the start URL yielded; the page URLs in
    \* the order of their first append to the frontier, with their link
    \* distance; the stages run so far for the current link, each with the
    \* failure it met and the note it produced
    fetch_log, dl_log, tool_calls, start_yield, enq_log, trail

args ==
    <<recursive, max_pages, max_bytes, include_external_pdfs, run_vera,
      pdftotext, dry_run>>

crawlvars == <<seen_pages, seen_pdfs, queue, results>>

posvars == <<pc, page_url, links, li>>

histvars == <<fetch_log, dl_log, tool_calls, start_yield, enq_log, trail>>

twovars == <<run, first>>

vars == <<args, crawlvars, posvars, loc, dl, fs, site, tape, twovars, histvars>>

PdfPaths == {safe_filename_from_url(u) : u \in Urls}

\* pdf_path.with_suffix(".pdftotext.txt")
with_suffix_txt(path) == SubSeq(path, 1, Len(path) - 1) \o <<".pdftotext.txt">>

\* lines 257-261 and the defaults of lines 308-310, 322-324, 336-337
InitialLocals ==
    [dl_status |-> None, dl_ct |-> None, dl_bytes |-> None, sha256 |-> None,
     note |-> None, has_text_layer |-> None, fonts_count |-> None,
     pdftotext_ran |-> FALSE, pdftotext_ok |-> None, pdftotext_output |-> None,
     pdftotext_bytes |-> None, pdftotext_chars |-> None, text_density |-> None,
     ver_ran |-> FALSE, ver_passed |-> None]

NoDownload ==
    [status |-> None, ct |-> None, total |-> 0, h |-> <<>>, rest |-> <<>>,
     end |-> "eof", body |-> <<>>]

PdfResult(pdf_url, source_page, l) ==
    [pdf_url |-> pdf_url, source_page |-> source_page,
     http_status |-> l.dl_status, content_type |-> l.dl_ct,
     bytes_downloaded |-> l.dl_bytes, sha256 |-> l.sha256,
     has_text_layer |-> l.has_text_layer, fonts_count |-> l.fonts_count,
     pdftotext_ran |-> l.pdftotext_ran, pdftotext_ok |-> l.pdftotext_ok,
     pdftotext_output |-> l.pdftotext_output,
     pdftotext_bytes |-> l.pdftotext_bytes,
     pdftotext_chars |-> l.pdftotext_chars, text_density |-> l.text_density,
     verapdf_ran |-> l.ver_ran, verapdf_passed |-> l.ver_passed,
     notes |-> l.note]

\* the record of lines 264-284
DryRunResult(pdf_url, source_page) ==
    PdfResult(pdf_url, source_page,
              [InitialLocals EXCEPT !.note = Some("dry-run (not downloaded)")])

\* an entry of the history of first appends to the frontier
Enqueued(url, depth) == [url |-> url, depth |-> depth]

InitCommon ==
    /\ recursive \in BOOLEAN
    /\ max_bytes = MaxBytesArg
    /\ run_vera \in BOOLEAN
    /\ pdftotext \in BOOLEAN
    /\ dry_run \in BOOLEAN
    /\ seen_pages = {}
    /\ seen_pdfs = {}
    /\ queue = <<StartUrl>>
    /\ results = <<>>
    /\ pc = "while"
    /\ page_url = None
    /\ links = <<>>
    /\ li = 1
    /\ loc = InitialLocals
    /\ dl = NoDownload
    /\ fs = [p \in PdfPaths |-> None]
    /\ fetch_log = <<>>
    /\ dl_log = <<>>
    /\ tool_calls = 0
    /\ start_yield = "unfetched"
    /\ enq_log = <<Enqueued(StartUrl, 0)>>
    /\ trail = <<>>
    /\ tape = <<>>
    /\ run = 1
    /\ first = None

\* a whole crawl over a site with a small set of responses and tool outcomes
Init ==
    /\ InitCommon
    /\ max_pages \in -1..MaxPagesArg
    /\ include_external_pdfs = FALSE
    /\ site = [urls |-> {PageP, PageX, PdfE},
               pdf_left |-> MaxPdfLinks, rich |-> FALSE, twice |-> FALSE]

\* a crawl over a site that links a single PDF, with every response and
\* tool outcome, and a page limit above the number of pages
InitPipeline ==
    /\ InitCommon
    /\ max_pages = MaxPagesArg
    /\ include_external_pdfs = FALSE
    /\ site = [urls |-> {PageP, PdfD}, pdf_left |-> 1, rich |-> TRUE,
               twice |-> FALSE]

\* a crawl over a site whose pages link each other and themselves
InitFrontier ==
    /\ InitCommon
    /\ max_pages \in -1..MaxPagesArg
    /\ include_external_pdfs = FALSE
    /\ site = [urls |-> {StartUrl, PageP, PageR, PdfD}, pdf_left |-> 1,
               rich |-> FALSE, twice |-> FALSE]

\* two crawls over one site, the second with --include-external-pdfs
\* inverted
InitTwice ==
    /\ InitCommon
    /\ max_pages \in -1..MaxPagesArg
    /\ include_external_pdfs \in BOOLEAN
    /\ site = [urls |-> {PageP, PdfE}, pdf_left |-> 1, rich |-> FALSE,
               twice |-> TRUE]

----------------------------------------------------------------------------
(* The environment: pages, responses, tool outcomes *)

RECURSIVE CountPdf(_)
CountPdf(l) ==
    IF l = <<>> THEN 0
    ELSE (IF is_probably_pdf(Head(l)) THEN 1 ELSE 0) + CountPdf(Tail(l))

\* the link lists extract_links can return while the site has n PDF-shaped
\* links left
LinkLists(n) ==
    {l \in UNION {[1..k -> site.urls] : k \in 0..MaxLinks} : CountPdf(l) <= n}

\* the response to the GET of a page; text is None or Some of the body,
\* the body being [empty, hrefs]: whether it is the empty string and the
\* links extract_links finds in it
PageResponse(k, status, ct, text) ==
    [kind |-> k, status |-> status, ct |-> ct, text |-> text]

Body(empty, hrefs) == [empty |-> empty, hrefs |-> hrefs]

PageFailures ==
    {PageResponse("exception", 0, "", None),
     PageResponse("response", 404, "text/html; charset=utf-8", Some(Body(FALSE, <<>>))),
     PageResponse("response", 200, "application/pdf", Some(Body(FALSE, <<>>))),
     PageResponse("response", 200, "text/html; charset=utf-8", Some(Body(TRUE, <<>>)))}

PageBodies(n) ==
    {PageResponse("response", 200, ct, Some(Body(FALSE, l))) :
        ct \in {"text/html; charset=utf-8", "application/xhtml+xml"},
        l \in LinkLists(n)}

\* "text/html" in ct or "application/xhtml+xml" in ct
CtIsHtml(ct) == ct \in {"text/html; charset=utf-8", "application/xhtml+xml"}

\* returns (status, ct, text)
fetch_html(r) ==
    CASE r.kind = "exception" -> [status |-> None, ct |-> None, html |-> None]
      [] r.status >= 400 -> [status |-> Some(r.status), ct |-> Some(r.ct), html |-> None]
      [] ~CtIsHtml(r.ct) -> [status |-> Some(r.status), ct |-> Some(r.ct), html |-> None]
      [] OTHER -> [status |-> Some(r.status), ct |-> Some(r.ct), html |-> r.text]

\* Python truthiness of the html returned by fetch_html
TruthyHtml(html) == html # None /\ ~Get(html).empty

\* the response to the GET of a PDF: an exception before any response, or
\* a status, a content type, the chunks iter_content yields and how the
\* stream ends ("eof", or "error": an exception after the last chunk)
PdfResponse(k, status, ct, chunks, end) ==
    [kind |-> k, status |-> status, ct |-> ct, chunks |-> chunks, end |-> end]

ChunksFull == {<<>>, <<"1">>, <<"2", "1">>}

Streams(chunkset) == UNION {[1..k -> chunkset] : k \in 0..MaxChunks}

\* the bodies cut short by an error: at once, or after one chunk
CutStreams(chunkset) == UNION {[1..k -> chunkset] : k \in 0..1}

PdfResponsesFull ==
    {PdfResponse("exception", 0, "", <<>>, "error"),
     PdfResponse("response", 404, "text/html", <<>>, "eof")}
    \cup {PdfResponse("response", 200, "application/pdf", c, "eof") :
            c \in Streams(ChunksFull)}
    \cup {PdfResponse("response", 200, "application/pdf", c, "error") :
            c \in CutStreams(ChunksFull)}
    \cup {PdfResponse("response", 200, "text/html", <<<<"1">>>>, "eof")}

PdfResponsesLean ==
    {PdfResponse("response", 404, "text/html", <<>>, "eof"),
     PdfResponse("response", 200, "application/pdf", <<<<"2", "1">>>>, "eof")}

PdfResponses == IF site.rich THEN PdfResponsesFull ELSE PdfResponsesLean

\* pdffonts lists fonts only of a file it can open
PdffontsOutcomes(exists) ==
    (IF site.rich THEN PdffontsFailuresFull ELSE PdffontsFailuresLean)
    \cup (IF ~exists THEN {}
          ELSE IF site.rich THEN PdffontsSuccessesFull ELSE PdffontsSuccessesLean)

PdftotextOutcomes == IF site.rich THEN PdftotextOutcomesFull ELSE PdftotextOutcomesLean

ReadOutcomes == IF site.rich THEN ReadOutcomesFull ELSE ReadOutcomesLean

\* veraPDF validates only a file it can open
VerapdfOutcomes(exists) ==
    (IF site.rich THEN VerapdfFailuresFull ELSE VerapdfFailuresLean)
    \cup (IF ~exists THEN {}
          ELSE IF site.rich THEN VerapdfVerdictsFull ELSE VerapdfVerdictsLean)

\* what a request can be answered with: anything in the first crawl, what
\* the first crawl got for it in the second
Answers(tag, set) ==
    IF run = 1 THEN set
    ELSE IF tape = <<>> THEN {}
    ELSE {t[2] : t \in {e \in {Head(tape)} : e[1] = tag}}

\* the answer x is given to the request
Answered(tag, x) ==
    tape' = IF run = 2 THEN Tail(tape)
            ELSE IF site.twice THEN Append(tape, <<tag, x>>)
            ELSE tape

RECURSIVE TotalLen(_)
TotalLen(chunks) ==
    IF chunks = <<>> THEN 0 ELSE Len(Head(chunks)) + TotalLen(Tail(chunks))

----------------------------------------------------------------------------
(* crawl(): the while loop *)

\* mutants of LoopCondition: the limit is passed by one page; the limit is
\* reached one page early; the limit is on the length of the frontier
LoopConditionInclusive(q, seen, limit) == q # <<>> /\ Cardinality(seen) <= limit

LoopConditionEarly(q, seen, limit) == q # <<>> /\ Cardinality(seen) + 1 < limit

LoopConditionOnQueue(q, seen, limit) == q # <<>> /\ Len(q) < limit

\* line 240: while queue and (len(seen_pages) < max_pages)
LoopCondition(q, seen, limit) == q # <<>> /\ Cardinality(seen) < limit

\* mutants of Recurse: the origin is not compared; --recursive is not read
RecurseAnyOrigin(q, link, rec) ==
    IF rec /\ link \notin seen_pages /\ ~is_probably_pdf(link)
    THEN Append(q, link)
    ELSE q

RecurseAlways(q, link, rec) ==
    IF same_origin(StartUrl, link) /\ link \notin seen_pages
          /\ ~is_probably_pdf(link)
    THEN Append(q, link)
    ELSE q

\* mutant of Recurse: the link goes to the front of the frontier
RecursePrepends(q, link, rec) ==
    IF rec /\ same_origin(StartUrl, link) /\ link \notin seen_pages
          /\ ~is_probably_pdf(link)
    THEN <<link>> \o q
    ELSE q

\* lines 366-370: the frontier after the link has been considered
Recurse(q, link, rec) ==
    IF rec /\ same_origin(StartUrl, link) /\ link \notin seen_pages
          /\ ~is_probably_pdf(link)
    THEN Append(q, link)
    ELSE q

\* mutant of IsDryRun: --dry-run is not read
NeverDryRun(d) == FALSE

\* line 263: the branch taken for a PDF-shaped link
IsDryRun(d) == d

\* mutant of CollectPdf: without --include-external-pdfs a PDF on another
\* origin is not collected
CollectPdfUnlessExternal(link, external) ==
    is_probably_pdf(link) /\ (external \/ same_origin(StartUrl, link))

\* line 255: whether the link is collected as a PDF; include_external_pdfs
\* is in scope and is not read
CollectPdf(link, external) == is_probably_pdf(link)

\* the link distance recorded for a URL that was appended to the frontier
DepthOf(log, url) == log[CHOOSE i \in 1..Len(log) : log[i].url = url].depth

\* the history of first appends once line 370 has taken the frontier from
\* before to after for a link of the page
FirstAppend(log, before, after, link, page) ==
    IF after # before /\ \A i \in 1..Len(log) : log[i].url # link
    THEN Append(log, Enqueued(link, DepthOf(log, page) + 1))
    ELSE log

\* lines 241-251: pop a page that was not fetched yet, fetch it, extract
\* its links
Fetched(r) ==
    /\ queue' = Tail(queue)
    /\ page_url' = Some(Head(queue))
    /\ seen_pages' = seen_pages \cup {Head(queue)}
    /\ fetch_log' = Append(fetch_log, Head(queue))
    /\ LET html == fetch_html(r).html
       IN /\ IF TruthyHtml(html)
             THEN /\ links' = Get(html).hrefs
                  /\ pc' = "for"
                  /\ site' = [site EXCEPT !.pdf_left = @ - CountPdf(Get(html).hrefs)]
             ELSE /\ links' = <<>>
                  /\ pc' = "while"
                  /\ site' = site
          /\ start_yield' =
                IF start_yield # "unfetched" THEN start_yield
                ELSE IF ~TruthyHtml(html) THEN "nobody"
                ELSE IF Get(html).hrefs = <<>> THEN "nolinks"
                ELSE "links"
    /\ li' = 1
    /\ Answered("page", r)
    /\ UNCHANGED <<args, seen_pdfs, results, loc, dl, fs, twovars, dl_log,
                   tool_calls, enq_log, trail>>

FetchPage ==
    /\ pc = "while"
    /\ LoopCondition(queue, seen_pages, max_pages)
    /\ Head(queue) \notin seen_pages
    /\ \E r \in Answers("page", PageFailures \cup PageBodies(site.pdf_left)) :
          Fetched(r)

\* lines 241-243: pop a page that was already fetched
SkipSeen ==
    /\ pc = "while"
    /\ LoopCondition(queue, seen_pages, max_pages)
    /\ Head(queue) \in seen_pages
    /\ queue' = Tail(queue)
    /\ page_url' = Some(Head(queue))
    /\ UNCHANGED <<args, seen_pages, seen_pdfs, results, pc, links, li, loc, dl,
                   fs, site, tape,
                   twovars, histvars>>

\* line 240 false: return results
LoopExit ==
    /\ pc = "while"
    /\ ~LoopCondition(queue, seen_pages, max_pages)
    /\ pc' = "done"
    /\ UNCHANGED <<args, crawlvars, page_url, links, li, loc, dl, fs, site, tape,
                   twovars, histvars>>

----------------------------------------------------------------------------
(* crawl(): the for loop over the links of the page *)

Link == links[li]

pdf_path == safe_filename_from_url(Link)

\* lines 253, 372-373: no link left; break when not recursive.  The list
\* and the index are not read again before line 251 assigns them anew.
ForDone ==
    /\ pc = "for"
    /\ li > Len(links)
    /\ pc' = IF ~recursive THEN "done" ELSE "while"
    /\ links' = <<>>
    /\ li' = 1
    /\ UNCHANGED <<args, crawlvars, page_url, loc, dl, fs, site, tape,
                   twovars, histvars>>

\* lines 255, 366-370: a link that is not PDF-shaped
LinkPage ==
    /\ pc = "for"
    /\ li <= Len(links)
    /\ ~CollectPdf(Link, include_external_pdfs)
    /\ queue' = Recurse(queue, Link, recursive)
    /\ enq_log' = FirstAppend(enq_log, queue, queue', Link, Get(page_url))
    /\ li' = li + 1
    /\ UNCHANGED <<args, seen_pages, seen_pdfs, results, pc, page_url, links,
                   loc, dl, fs, site, tape, twovars, fetch_log, dl_log,
                   tool_calls, start_yield, trail>>

\* lines 255-285: a PDF-shaped link under --dry-run
LinkDryRun ==
    /\ pc = "for"
    /\ li <= Len(links)
    /\ CollectPdf(Link, include_external_pdfs)
    /\ IsDryRun(dry_run)
    /\ results' = Append(results, DryRunResult(Link, Get(page_url)))
    /\ li' = li + 1
    /\ UNCHANGED <<args, seen_pages, seen_pdfs, queue, pc, page_url, links, loc,
                   dl, fs, site, tape,
                   twovars, histvars>>

\* lines 255-261, 288: a PDF-shaped link, normal processing
LinkPdf ==
    /\ pc = "for"
    /\ li <= Len(links)
    /\ CollectPdf(Link, include_external_pdfs)
    /\ ~IsDryRun(dry_run)
    /\ loc' = InitialLocals
    /\ pc' = "download"
    /\ UNCHANGED <<args, crawlvars, page_url, links, li, dl, fs, site, tape,
                   twovars, histvars>>

----------------------------------------------------------------------------
(* download_pdf() and lines 290-302 of crawl() *)

\* mutants of ExceedsCap: a body of exactly max_bytes bytes is refused; a
\* body one byte above max_bytes is accepted
ExceedsCapInclusive(total, limit) == total >= limit

ExceedsCapLate(total, limit) == total > limit + 1

\* line 197: if total > max_bytes
ExceedsCap(total, limit) == total > limit

\* mutant of update: the chunk is hashed ahead of what was hashed before
updateFront(h, chunk) == chunk \o h

\* line 200: h.update(chunk); the hash object is modelled by the bytes fed
update(h, chunk) == h \o chunk

\* line 199: f.write(chunk)
write(content, chunk) == Some(Get(content) \o chunk)

\* the four values download_pdf returns; the fourth is a note or the digest
DownloadReturn(status, ct, bytes, note_or_sha) ==
    [status |-> status, ct |-> ct, bytes |-> bytes, note_or_sha |-> note_or_sha]

\* mutant of Classify: what download_pdf returns beside a status is taken
\* for a digest or dropped
ClassifyDropsNote(l, ret) ==
    LET l1 == [l EXCEPT !.dl_status = ret.status, !.dl_ct = ret.ct,
                        !.dl_bytes = ret.bytes]
    IN IF ret.status = None
       THEN [l1 EXCEPT !.note = Some(ret.note_or_sha.text)]
       ELSE IF ret.note_or_sha.text # "" /\ fullmatch_hex64(ret.note_or_sha)
            THEN [l1 EXCEPT !.sha256 = Some(ret.note_or_sha.text)]
            ELSE l1

\* lines 296-302: the locals after download_pdf has returned ret
Classify(l, ret) ==
    LET l1 == [l EXCEPT !.dl_status = ret.status, !.dl_ct = ret.ct,
                        !.dl_bytes = ret.bytes]
    IN IF ret.status = None
       THEN [l1 EXCEPT !.note = Some(ret.note_or_sha.text)]
       ELSE IF ret.note_or_sha.text # "" /\ fullmatch_hex64(ret.note_or_sha)
            THEN [l1 EXCEPT !.sha256 = Some(ret.note_or_sha.text)]
            ELSE [l1 EXCEPT !.note = Some(ret.note_or_sha.text)]

\* the response is a whole body, without error, of at most max_bytes bytes
Complete(r) ==
    /\ r.kind = "response"
    /\ r.status < 400
    /\ r.end = "eof"
    /\ TotalLen(r.chunks) <= max_bytes

\* an entry of the history of the stages of the current link: the stage,
\* the failure it met ("none" when it met none), the note it produced and,
\* for the conformance stage, what the tool did
Stage(stage, fault, note, tool) ==
    [stage |-> stage, fault |-> fault, note |-> note, tool |-> tool]

\* the failure a tool's outcome amounts to
ToolFault(o) ==
    IF o.kind # "ran" THEN o.kind ELSE IF o.rc # 0 THEN "failed" ELSE "none"

\* download_pdf returns ret to line 290, having met the failure fault
Returned(ret, fault) ==
    /\ loc' = Classify(loc, ret)
    /\ dl' = NoDownload
    /\ pc' = "pdffonts"
    /\ trail' = Append(trail,
                    Stage("transport", fault,
                          IF fault = "none" THEN None
                          ELSE Some(ret.note_or_sha.text), None))

\* lines 177-192: the GET, the status check, the open of the file
Requested(r) ==
    /\ dl_log' = Append(dl_log, [url |-> Link, complete |-> Complete(r)])
    /\ CASE r.kind = "exception" ->
              /\ Returned(DownloadReturn(None, None, None,
                             Str("download exception: timeout", FALSE)),
                          "exception")
              /\ fs' = fs
         [] r.kind = "response" /\ r.status >= 400 ->
              /\ Returned(DownloadReturn(Some(r.status), Some(r.ct), None,
                             Str("HTTP " \o ToString(r.status), FALSE)),
                          "http")
              /\ fs' = fs
         [] OTHER ->
              /\ dl' = [status |-> Some(r.status), ct |-> Some(r.ct), total |-> 0,
                        h |-> <<>>, rest |-> r.chunks, end |-> r.end,
                        body |-> r.chunks]
              /\ fs' = [fs EXCEPT ![pdf_path] = Some(<<>>)]
              /\ pc' = "stream"
              /\ UNCHANGED <<loc, trail>>
    /\ Answered("pdf", r)
    /\ UNCHANGED <<args, crawlvars, page_url, links, li, site, twovars,
                   fetch_log, tool_calls, start_yield, enq_log>>

DownloadBegin ==
    /\ pc = "download"
    /\ \E r \in Answers("pdf", PdfResponses) : Requested(r)

\* lines 193-200: one chunk of iter_content
DownloadChunk ==
    /\ pc = "stream"
    /\ dl.rest # <<>>
    /\ LET chunk == Head(dl.rest)
           total == dl.total + Len(chunk)
       IN IF chunk = <<>>
          THEN /\ dl' = [dl EXCEPT !.rest = Tail(@)]
               /\ UNCHANGED <<fs, loc, pc, trail>>
          ELSE IF ExceedsCap(total, max_bytes)
          THEN /\ Returned(DownloadReturn(dl.status, dl.ct, Some(total),
                              Str("exceeded max_bytes=" \o ToString(max_bytes), FALSE)),
                           "cap")
               /\ fs' = fs
          ELSE /\ dl' = [dl EXCEPT !.total = total, !.h = update(@, chunk),
                                   !.rest = Tail(@)]
               /\ fs' = [fs EXCEPT ![pdf_path] = write(@, chunk)]
               /\ UNCHANGED <<loc, pc, trail>>
    /\ UNCHANGED <<args, crawlvars, page_url, links, li, site, tape, twovars,
                   fetch_log, dl_log, tool_calls, start_yield, enq_log>>

\* lines 202-205: the stream ends, with the last chunk or with an exception
DownloadEnd ==
    /\ pc = "stream"
    /\ dl.rest = <<>>
    /\ IF dl.end = "eof"
       THEN Returned(DownloadReturn(dl.status, dl.ct, Some(dl.total), hexdigest(dl.h)),
                     "none")
       ELSE Returned(DownloadReturn(None, None, None,
                        Str("download exception: timeout", FALSE)),
                     "exception")
    /\ UNCHANGED <<args, crawlvars, page_url, links, li, fs, site, tape,
                   twovars, fetch_log, dl_log, tool_calls, start_yield, enq_log>>

----------------------------------------------------------------------------
(* crawl(): the analysis stages, lines 304-363 *)

\* mutant of ExtractionGate: the text-layer verdict is not read
ExtractionGateNoVerdict(requested, has_text_layer, exists) == requested /\ exists

\* line 313: if pdftotext and has_text_layer and pdf_path.exists()
ExtractionGate(requested, has_text_layer, exists) ==
    requested /\ TruthyBool(has_text_layer) /\ exists

\* lines 304-306
PdffontsRan(o) ==
    /\ LET r == run_pdffonts(o)
       IN /\ loc' = [loc EXCEPT !.has_text_layer = r.has, !.fonts_count = r.count,
                                !.note = IF TruthyStr(r.note)
                                         THEN AppendNote(loc.note, Get(r.note))
                                         ELSE @]
          /\ trail' = Append(trail, Stage("text-layer", ToolFault(o), r.note, None))
    /\ tool_calls' = tool_calls + 1
    /\ pc' = "pdftotext"
    /\ Answered("pdffonts", o)
    /\ UNCHANGED <<args, crawlvars, page_url, links, li, dl, fs, site, twovars,
                   fetch_log, dl_log, start_yield, enq_log>>

Pdffonts ==
    /\ pc = "pdffonts"
    /\ \E o \in Answers("pdffonts", PdffontsOutcomes(fs[pdf_path] # None)) :
          PdffontsRan(o)

\* lines 308-313, 322-326: the extraction is not attempted
ExtractSkipped ==
    /\ pc = "pdftotext"
    /\ ~ExtractionGate(pdftotext, loc.has_text_layer, fs[pdf_path] # None)
    /\ pc' = "verapdf"
    /\ UNCHANGED <<args, crawlvars, page_url, links, li, loc, dl, fs, site, tape,
                   twovars, histvars>>

\* line 320: the note of a failed extraction
pdftotext_note(r) ==
    IF ~r.ok
    THEN Some("pdftotext failed: " \o (IF r.err = None THEN "None" ELSE Get(r.err)))
    ELSE None

\* mutant of AfterPdftotext: the output path is kept when pdftotext failed
AfterPdftotextKeepsPath(l, r) ==
    [l EXCEPT !.pdftotext_ran = TRUE,
              !.pdftotext_ok = Some(r.ok),
              !.pdftotext_output = Some(with_suffix_txt(pdf_path)),
              !.note = IF ~r.ok
                       THEN AppendNote(l.note, Get(pdftotext_note(r)))
                       ELSE @]

\* lines 314-320
AfterPdftotext(l, r) ==
    [l EXCEPT !.pdftotext_ran = TRUE,
              !.pdftotext_ok = Some(r.ok),
              !.pdftotext_output = IF r.ok THEN Some(with_suffix_txt(pdf_path)) ELSE None,
              !.note = IF ~r.ok
                       THEN AppendNote(l.note, Get(pdftotext_note(r)))
                       ELSE @]

\* line 326: if pdftotext_ok and pdftotext_output and dl_bytes
ReadGate(l) ==
    TruthyBool(l.pdftotext_ok) /\ l.pdftotext_output # None /\ TruthyInt(l.dl_bytes)

\* line 334: the note of a failed read-back
read_note(rd) == IF rd.ok THEN None ELSE Some("pdftotext read failed: oserror")

\* lines 326-334
AfterRead(l, rd) ==
    IF ReadGate(l)
    THEN IF rd.ok
         THEN [l EXCEPT !.pdftotext_chars = Some(rd.chars),
                        !.pdftotext_bytes = Some(rd.bytes),
                        !.text_density = Some(<<rd.bytes, Get(l.dl_bytes)>>)]
         ELSE [l EXCEPT !.note = AppendNote(l.note, Get(read_note(rd)))]
    ELSE l

\* lines 313-334: pdftotext runs, its output is read back
Extracted(o, rd) ==
    /\ LET r == run_pdftotext(o)
           l == AfterPdftotext(loc, r)
       IN /\ loc' = AfterRead(l, rd)
          /\ trail' = trail
                \o <<Stage("extraction", ToolFault(o), pdftotext_note(r), None)>>
                \o (IF ReadGate(l)
                    THEN <<Stage("read-back", IF rd.ok THEN "none" ELSE "read",
                                 read_note(rd), None)>>
                    ELSE <<>>)
    /\ tool_calls' = tool_calls + 1
    /\ pc' = "verapdf"
    /\ Answered("pdftotext", <<o, rd>>)
    /\ UNCHANGED <<args, crawlvars, page_url, links, li, dl, fs, site, twovars,
                   fetch_log, dl_log, start_yield, enq_log>>

Extract ==
    /\ pc = "pdftotext"
    /\ ExtractionGate(pdftotext, loc.has_text_layer, fs[pdf_path] # None)
    /\ \E x \in Answers("pdftotext", PdftotextOutcomes \X ReadOutcomes) :
          Extracted(x[1], x[2])

\* lines 336-338: veraPDF was not requested
VerapdfSkipped ==
    /\ pc = "verapdf"
    /\ ~run_vera
    /\ pc' = "append"
    /\ UNCHANGED <<args, crawlvars, page_url, links, li, loc, dl, fs, site, tape,
                   twovars, histvars>>

\* lines 338-341
VerapdfRan(o) ==
    /\ LET r == run_verapdf(o)
       IN /\ loc' = [loc EXCEPT !.ver_ran = r.ran, !.ver_passed = r.passed,
                                !.note = IF TruthyStr(r.note)
                                         THEN AppendNote(loc.note, Get(r.note))
                                         ELSE @]
          /\ trail' = Append(trail, Stage("conformance", ToolFault(o), r.note, Some(o)))
    /\ tool_calls' = tool_calls + 1
    /\ pc' = "append"
    /\ Answered("verapdf", o)
    /\ UNCHANGED <<args, crawlvars, page_url, links, li, dl, fs, site, twovars,
                   fetch_log, dl_log, start_yield, enq_log>>

Verapdf ==
    /\ pc = "verapdf"
    /\ run_vera
    /\ \E o \in Answers("verapdf", VerapdfOutcomes(fs[pdf_path] # None)) :
          VerapdfRan(o)

\* lines 343-370: the record is appended, the link is considered for the
\* frontier
AppendResult ==
    /\ pc = "append"
    /\ results' = Append(results, PdfResult(Link, Get(page_url), loc))
    /\ queue' = Recurse(queue, Link, recursive)
    /\ enq_log' = FirstAppend(enq_log, queue, queue', Link, Get(page_url))
    /\ li' = li + 1
    /\ loc' = InitialLocals
    /\ trail' = <<>>
    /\ pc' = "for"
    /\ UNCHANGED <<args, seen_pages, seen_pdfs, page_url, links, dl, fs, site,
                   tape, twovars, fetch_log, dl_log, tool_calls, start_yield>>

\* the first crawl has returned: the second one starts on the same site,
\* with the same arguments but --include-external-pdfs inverted, in an
\* output directory of its own
SecondCrawl ==
    /\ pc = "done"
    /\ site.twice
    /\ run = 1
    /\ run' = 2
    /\ first' = Some([fetch_log |-> fetch_log, results |-> results])
    /\ include_external_pdfs' = ~include_external_pdfs
    /\ UNCHANGED <<recursive, max_pages, max_bytes, run_vera, pdftotext, dry_run>>
    /\ seen_pages' = {}
    /\ seen_pdfs' = {}
    /\ queue' = <<StartUrl>>
    /\ results' = <<>>
    /\ pc' = "while"
    /\ page_url' = None
    /\ links' = <<>>
    /\ li' = 1
    /\ loc' = InitialLocals
    /\ dl' = NoDownload
    /\ fs' = [p \in PdfPaths |-> None]
    /\ site' = [site EXCEPT !.pdf_left = 1]
    /\ fetch_log' = <<>>
    /\ dl_log' = <<>>
    /\ tool_calls' = 0
    /\ start_yield' = "unfetched"
    /\ enq_log' = <<Enqueued(StartUrl, 0)>>
    /\ trail' = <<>>
    /\ tape' = tape

----------------------------------------------------------------------------
(* Specifications *)

Next ==
    \/ FetchPage
    \/ SkipSeen
    \/ LoopExit
    \/ ForDone
    \/ LinkPage
    \/ LinkDryRun
    \/ LinkPdf
    \/ DownloadBegin
    \/ DownloadChunk
    \/ DownloadEnd
    \/ Pdffonts
    \/ ExtractSkipped
    \/ Extract
    \/ VerapdfSkipped
    \/ Verapdf
    \/ AppendResult

\* one crawl, and then a second one over the same site
NextTwice ==
    \/ Next
    \/ SecondCrawl

Spec == Init /\ [][Next]_vars

SpecPipeline == InitPipeline /\ [][Next]_vars

SpecFrontier == InitFrontier /\ [][Next]_vars

SpecTwice == InitTwice /\ [][NextTwice]_vars

----------------------------------------------------------------------------
(* Claims *)

Records == {results[i] : i \in 1..Len(results)}

\* the links of the current page that the for loop has dealt with
Processed == IF pc = "for" THEN 1..(li - 1) ELSE {}

\* C1: a PDF URL linked several times, from one page or from two, appears
\* in exactly one record, attributed to the page fetched first, and is
\* downloaded at most once.
C1_PdfRecordedOnce ==
    /\ \A i, j \in 1..Len(results) :
          results[i].pdf_url = results[j].pdf_url => i = j
    /\ \A i, j \in 1..Len(dl_log) : dl_log[i].url = dl_log[j].url => i = j

\* C2: a record without sha256 (the transport stage did not complete) has
\* no text-layer verdict, no font count, no extraction and no conformance
\* verdict, whatever file lies at the derived path.
C2_NoAnalysisWithoutTransport ==
    \A r \in Records :
        r.sha256 = None =>
            /\ r.has_text_layer = None
            /\ r.fonts_count = None
            /\ ~r.pdftotext_ran
            /\ r.pdftotext_ok = None
            /\ r.pdftotext_output = None
            /\ r.pdftotext_bytes = None
            /\ r.pdftotext_chars = None
            /\ r.text_density = None
            /\ r.verapdf_passed = None

\* C3: a record has a sha256 exactly when its download got a response with
\* status < 400 whose whole body arrived without exception and counted at
\* most max_bytes bytes; a dry-run record has none.
C3_ShaIffComplete ==
    /\ dry_run => \A r \in Records : r.sha256 = None
    /\ ~dry_run =>
          /\ Len(results) <= Len(dl_log)
          /\ \A i \in 1..Len(results) :
                /\ results[i].pdf_url = dl_log[i].url
                /\ results[i].sha256 # None <=> dl_log[i].complete

\* a body of exactly max_bytes bytes was downloaded and has its digest
C3_Witness ==
    \E r \in Records :
        r.sha256 # None /\ r.bytes_downloaded = Some(max_bytes)

\* C4: the chunk that takes the count above max_bytes is not written and
\* ends the download: the file never holds more than max_bytes bytes, the
\* count returned is the count at that point, above max_bytes, the note is
\* "exceeded max_bytes=<N>" and no digest is returned.
C4_FileWithinCap ==
    /\ \A p \in PdfPaths : fs[p] # None => Len(Get(fs[p])) <= max_bytes
    /\ (/\ pc = "pdffonts"
        /\ loc.note = Some("exceeded max_bytes=" \o ToString(max_bytes)))
       => /\ loc.dl_bytes # None
          /\ Get(loc.dl_bytes) > max_bytes
          /\ loc.sha256 = None

C4_AbortStep ==
    (/\ pc = "stream"
     /\ dl.rest # <<>>
     /\ dl.total + Len(Head(dl.rest)) > max_bytes)
    => /\ fs' = fs
       /\ pc' = "pdffonts"
       /\ loc'.dl_bytes = Some(dl.total + Len(Head(dl.rest)))
       /\ loc'.note = Some("exceeded max_bytes=" \o ToString(max_bytes))
       /\ loc'.sha256 = None

C4_AbortAtCap == []C4_FileWithinCap /\ [][C4_AbortStep]_vars

\* a download was aborted after part of the body had been written
C4_Witness ==
    /\ pc = "pdffonts"
    /\ loc.note = Some("exceeded max_bytes=" \o ToString(max_bytes))
    /\ fs[pdf_path] # None
    /\ Get(fs[pdf_path]) # <<>>

\* C5: pdftotext is attempted only if it was requested, the text-layer
\* stage said true and the file exists; a record whose has_text_layer is
\* false or unknown has pdftotext_ran false and no extraction field.
C5_RecordsGated ==
    \A r \in Records :
        /\ r.pdftotext_ran => pdftotext /\ r.has_text_layer = Some(TRUE)
        /\ r.has_text_layer # Some(TRUE) =>
              /\ ~r.pdftotext_ran
              /\ r.pdftotext_ok = None
              /\ r.pdftotext_output = None
              /\ r.pdftotext_bytes = None
              /\ r.pdftotext_chars = None
              /\ r.text_density = None

C5_AttemptStep ==
    (~loc.pdftotext_ran /\ loc'.pdftotext_ran)
    => /\ pdftotext
       /\ loc.has_text_layer = Some(TRUE)
       /\ fs[pdf_path] # None

C5_ExtractionGated == []C5_RecordsGated /\ [][C5_AttemptStep]_vars

\* extraction was requested, the file is there, and the text-layer stage
\* said false or unknown
C5_Witness ==
    /\ pdftotext
    /\ pc = "verapdf"
    /\ fs[pdf_path] # None
    /\ loc.has_text_layer # Some(TRUE)
    /\ ~loc.pdftotext_ran

C8_StartPageOnly ==
    ~recursive =>
        /\ Len(fetch_log) <= 1
        /\ queue \in {<<>>, <<StartUrl>>}
        /\ \A r \in Records : r.source_page = StartUrl

C8_StopStep ==
    (~recursive /\ pc = "for" /\ li > Len(links)) => pc' = "done"

C8_NoRecursion == []C8_StartPageOnly /\ [][C8_StopStep]_vars

\* without recursion, the start page has linked a same-origin page and a
\* PDF, and both links have been dealt with
C8_Witness ==
    /\ ~recursive
    /\ pc = "for"
    /\ li > Len(links)
    /\ results # <<>>
    /\ \E k \in Processed : links[k] = PageP

\* C10: under --dry-run nothing is downloaded, no tool is run, and every
\* record is the stub with the dry-run note.
C10_DryRunStubs ==
    dry_run =>
        /\ dl_log = <<>>
        /\ tool_calls = 0
        /\ \A p \in PdfPaths : fs[p] = None
        /\ pc \in {"while", "for", "done"}
        /\ \A r \in Records :
              /\ r.http_status = None
              /\ r.content_type = None
              /\ r.bytes_downloaded = None
              /\ r.sha256 = None
              /\ r.has_text_layer = None
              /\ r.fonts_count = None
              /\ ~r.pdftotext_ran
              /\ r.pdftotext_ok = None
              /\ r.pdftotext_output = None
              /\ r.pdftotext_bytes = None
              /\ r.pdftotext_chars = None
              /\ r.text_density = None
              /\ ~r.verapdf_ran
              /\ r.verapdf_passed = None
              /\ r.notes = Some("dry-run (not downloaded)")

\* a dry run has recorded a PDF
C10_Witness == dry_run /\ results # <<>>

\* C9: with recursion and max_pages >= 1 the start page is fetched, and
\* when it yields no body or no link the crawl ends, within two steps, with
\* that one page fetched, nothing downloaded and no record.
C9_Started == recursive /\ max_pages >= 1

C9_Barren == C9_Started /\ start_yield \in {"nobody", "nolinks"}

C9_Outcome == fetch_log = <<StartUrl>> /\ dl_log = <<>> /\ results = <<>>

\* the steps left before the crawl returns
C9_Rank ==
    CASE pc = "done" -> 0
      [] pc = "while" -> 1
      [] pc = "for" -> 2
      [] OTHER -> 3

C9_State ==
    /\ (C9_Started /\ start_yield = "unfetched") => (pc = "while" /\ ENABLED FetchPage)
    /\ C9_Barren => C9_Outcome /\ C9_Rank <= 2 /\ (pc # "done" => ENABLED Next)

C9_Step == C9_Barren => C9_Rank' < C9_Rank

C9_BarrenStartPage == []C9_State /\ [][C9_Step]_vars

\* the crawl has ended after a start page without links
C9_Witness == C9_Barren /\ pc = "done" /\ max_pages = MaxPagesArg

----------------------------------------------------------------------------

\* the positions of crawl() between the download of a link and its record
InPipeline == pc \in {"download", "stream", "pdffonts", "pdftotext", "verapdf", "append"}

\* the stages of the current link that met a failure
Faulty == {i \in 1..Len(trail) : trail[i].fault # "none"}

\* veraPDF is absent, or it exited non-zero having printed a verdict
SilentFault(e) ==
    /\ e.stage = "conformance"
    /\ \/ e.fault = "missing"
       \/ e.fault = "failed" /\ run_verapdf(Get(e.tool)).passed # None

\* the step that follows each position of crawl() can be taken
CanContinue ==
    CASE pc = "while" ->
           IF LoopCondition(queue, seen_pages, max_pages)
           THEN ENABLED (SkipSeen \/ FetchPage)
           ELSE ENABLED LoopExit
      [] pc = "for" -> ENABLED (ForDone \/ LinkPage \/ LinkDryRun \/ LinkPdf)
      [] pc = "download" -> ENABLED DownloadBegin
      [] pc = "stream" -> ENABLED (DownloadChunk \/ DownloadEnd)
      [] pc = "pdffonts" -> ENABLED Pdffonts
      [] pc = "pdftotext" -> ENABLED (ExtractSkipped \/ Extract)
      [] pc = "verapdf" -> ENABLED (VerapdfSkipped \/ Verapdf)
      [] pc = "append" -> ENABLED AppendResult
      [] OTHER -> pc = "done"

\* C11 as stated: every failure of the download or of a tool (HTTP error,
\* exception, size cap, tool missing, failed or timed out) leaves a note on
\* the record of the link.
C11_EveryFailureNoted == (pc = "append" /\ Faulty # {}) => loc.note # None

\* C11: a failure never ends the crawl.  A failed page fetch pops the
\* frontier and marks the page as a fetched one does, adds no record and
\* returns to the loop test; between the download of a link and its record
\* the frontier, the visited set and the link list do not change, every
\* stage is followed by a next step, and the one step that ends the
\* pipeline appends one record for the link and moves to the next link; the
\* record has a note when a stage failed, unless the only failures are
\* veraPDF being absent or exiting non-zero with a verdict.
C11_State ==
    /\ CanContinue
    /\ (pc = "append" /\ \E i \in Faulty : ~SilentFault(trail[i]))
          => loc.note # None

C11_Step ==
    /\ (pc = "while" /\ fetch_log' # fetch_log /\ pc' = "while")
          => /\ queue' = Tail(queue)
             /\ seen_pages' = seen_pages \cup {Head(queue)}
             /\ results' = results
    /\ InPipeline
          => /\ queue' = queue
             /\ seen_pages' = seen_pages
             /\ links' = links
             /\ page_url' = page_url
             /\ IF pc = "append"
                THEN /\ Len(results') = Len(results) + 1
                     /\ SubSeq(results', 1, Len(results)) = results
                     /\ results'[Len(results')].pdf_url = Link
                     /\ results'[Len(results')].notes = loc.note
                     /\ li' = li + 1
                     /\ pc' = "for"
                ELSE /\ results' = results
                     /\ li' = li
                     /\ InPipeline'

C11_FailureContained == []C11_State /\ [][C11_Step]_vars

\* a stage of the first link of a page has failed, a link of the page and
\* an entry of the frontier are still to come
C11_Witness ==
    /\ pc = "append"
    /\ \E i \in Faulty : ~SilentFault(trail[i])
    /\ li < Len(links)
    /\ queue # <<>>

----------------------------------------------------------------------------

\* C12: pages are fetched in the order of their first append to the
\* frontier: the i-th page fetched is the i-th URL first appended; the
\* frontier only loses its head and only grows at its tail, and the page
\* fetched is its head; the link distances of the pages fetched never
\* decrease, the distance recorded for a page being at most one more than
\* that of every fetched page that links it.
C12_State ==
    /\ Len(fetch_log) <= Len(enq_log)
    /\ \A i \in 1..Len(fetch_log) : fetch_log[i] = enq_log[i].url
    /\ \A i, j \in 1..Len(enq_log) :
          /\ i <= j => enq_log[i].depth <= enq_log[j].depth
          /\ enq_log[i].url = enq_log[j].url => i = j

C12_Step ==
    /\ \/ queue' = queue
       \/ queue # <<>> /\ queue' = Tail(queue)
       \/ Len(queue') = Len(queue) + 1 /\ SubSeq(queue', 1, Len(queue)) = queue
    /\ fetch_log' # fetch_log => fetch_log' = Append(fetch_log, Head(queue))
    /\ (/\ pc = "for"
        /\ li <= Len(links)
        /\ recursive
        /\ same_origin(StartUrl, Link)
        /\ ~is_probably_pdf(Link))
       => \E i \in 1..Len(enq_log') :
             /\ enq_log'[i].url = Link
             /\ enq_log'[i].depth <= DepthOf(enq_log, Get(page_url)) + 1

C12_FifoOrder == []C12_State /\ [][C12_Step]_vars

\* three pages were fetched, the third at distance 2 and appended twice
C12_Witness ==
    /\ Len(fetch_log) = 3
    /\ enq_log[3].depth = 2
    /\ fetch_log[3] = PageP
    /\ \E i \in 1..Len(queue) : queue[i] = PageP

----------------------------------------------------------------------------

\* C13: the visited set holds every page URL fetched or put in the
\* frontier: the frontier never holds a URL twice, never holds a URL that
\* was fetched, and every URL in it is in the visited set.
C13_QueuedOnce ==
    /\ \A i, j \in 1..Len(queue) : queue[i] = queue[j] => i = j
    /\ \A i \in 1..Len(queue) :
          /\ \A k \in 1..Len(fetch_log) : queue[i] # fetch_log[k]
          /\ (queue[i] # StartUrl \/ fetch_log # <<>>) => queue[i] \in seen_pages

----------------------------------------------------------------------------

\* the place of a stage in the pipeline; the read-back belongs to the
\* extraction
StageRank(stage) ==
    CASE stage = "transport" -> 1
      [] stage = "text-layer" -> 2
      [] stage = "extraction" -> 3
      [] stage = "read-back" -> 4
      [] stage = "conformance" -> 5

\* C14: the stages of a link run in the order transport, text-layer,
\* extraction, conformance; the text-layer stage runs after every download,
\* successful or not; when it fails, has_text_layer and fonts_count stay
\* absent, a note is there, the extraction is passed over, the conformance
\* stage runs exactly if requested and the record is appended with these
\* values.
C14_State ==
    /\ \A i, j \in 1..Len(trail) :
          i < j => StageRank(trail[i].stage) < StageRank(trail[j].stage)
    /\ pc \in {"pdftotext", "verapdf", "append"} =>
          /\ Len(trail) >= 2
          /\ trail[1].stage = "transport"
          /\ trail[2].stage = "text-layer"
          /\ trail[2].fault # "none" =>
                /\ loc.has_text_layer = None
                /\ loc.fonts_count = None
                /\ loc.note # None
                /\ ~loc.pdftotext_ran
                /\ pc = "pdftotext" => ENABLED ExtractSkipped
                /\ pc = "verapdf" => ENABLED (IF run_vera THEN Verapdf ELSE VerapdfSkipped)
                /\ pc = "append" => ENABLED AppendResult
    /\ pc = "append" =>
          (run_vera <=> \E i \in 1..Len(trail) : trail[i].stage = "conformance")

C14_Step ==
    /\ (pc = "pdffonts" /\ pc' # pc) => pc' = "pdftotext"
    /\ (pc = "pdftotext" /\ pc' # pc) => pc' = "verapdf"
    /\ (pc = "verapdf" /\ pc' # pc) => pc' = "append"
    /\ pc = "append" =>
          results' = Append(results, PdfResult(Link, Get(page_url), loc))

C14_StageOrder == []C14_State /\ [][C14_Step]_vars

\* the download succeeded, the text-layer stage failed, and veraPDF gave
\* its verdict all the same
C14_Witness ==
    /\ pc = "append"
    /\ loc.sha256 # None
    /\ trail[2].fault # "none"
    /\ loc.ver_passed # None

----------------------------------------------------------------------------

\* what veraPDF did for the current link, once the conformance stage ran
C15_Tool == Get(trail[Len(trail)].tool)

C15_Ran == pc = "append" /\ trail # <<>> /\ trail[Len(trail)].stage = "conformance"

C15_Words == C15_Tool.out \o C15_Tool.err

C15_SaysPass == \E i \in 1..Len(C15_Words) : WordHasPass(C15_Words[i])

C15_SaysFail == \E i \in 1..Len(C15_Words) : WordHasFail(C15_Words[i])

\* C15: veraPDF absent gives (not run, unknown, no note); when it ran,
\* "fail" in its output gives passed = false whether or not "pass" is there
\* too, "pass" without "fail" gives true, neither gives unknown with the
\* exit-code note exactly when the exit code is not 0; a timeout or an
\* exception gives (run, unknown, a note).
C15_ConformanceMapping ==
    C15_Ran =>
        LET note == trail[Len(trail)].note
        IN CASE C15_Tool.kind = "missing" ->
                  ~loc.ver_ran /\ loc.ver_passed = None /\ note = None
             [] C15_Tool.kind \in {"timeout", "exception"} ->
                  loc.ver_ran /\ loc.ver_passed = None /\ note # None
             [] C15_Tool.kind = "ran" /\ C15_SaysFail ->
                  loc.ver_ran /\ loc.ver_passed = Some(FALSE)
             [] C15_Tool.kind = "ran" /\ C15_SaysPass /\ ~C15_SaysFail ->
                  loc.ver_ran /\ loc.ver_passed = Some(TRUE)
             [] C15_Tool.kind = "ran" /\ ~C15_SaysPass /\ ~C15_SaysFail ->
                  /\ loc.ver_ran
                  /\ loc.ver_passed = None
                  /\ note # None <=> C15_Tool.rc # 0
                  /\ note # None =>
                        note = Some("verapdf return code " \o ToString(C15_Tool.rc))

\* veraPDF printed "pass" and "fail", and the verdict is false
C15_Witness ==
    /\ C15_Ran
    /\ C15_Tool.kind = "ran"
    /\ C15_SaysPass
    /\ C15_SaysFail
    /\ loc.ver_passed = Some(FALSE)

----------------------------------------------------------------------------

HasNote(e) == e.note # None

\* the notes the stages of the current link produced, in stage order
StageNotes == SelectSeq(trail, HasNote)

\* "; ".join of the notes of the entries
RECURSIVE JoinNotes(_)
JoinNotes(es) ==
    IF es = <<>> THEN ""
    ELSE IF Len(es) = 1 THEN Get(es[1].note)
    ELSE Get(es[1].note) \o "; " \o JoinNotes(Tail(es))

\* C16: at every point of the pipeline the note of the link is the
\* "; "-join of the notes the stages produced so far, in stage order, and is
\* absent exactly when no stage produced one; no stage takes a stage or its
\* note away, and the record gets the note as it stands after the last
\* stage.
C16_State ==
    loc.note = IF StageNotes = <<>> THEN None ELSE Some(JoinNotes(StageNotes))

C16_Step ==
    IF pc = "append"
    THEN results'[Len(results')].notes = loc.note
    ELSE /\ Len(trail') >= Len(trail)
         /\ SubSeq(trail', 1, Len(trail)) = trail

C16_NotesAppendOnly == []C16_State /\ [][C16_Step]_vars

\* three stages left a note, the extraction among them
C16_Witness ==
    /\ pc = "append"
    /\ Len(StageNotes) = 3
    /\ \E i \in 1..3 : StageNotes[i].stage \in {"extraction", "read-back"}

----------------------------------------------------------------------------

\* s is the beginning of t
IsPrefix(s, t) == Len(s) <= Len(t) /\ SubSeq(t, 1, Len(s)) = s

\* C17: a second crawl of the same site, with the same arguments but
\* include_external_pdfs inverted, can take every step, fetches the pages
\* the first crawl fetched, in the same order, and returns the records the
\* first crawl returned; in both crawls every PDF-shaped link dealt with,
\* on the start URL's origin or not, has its record.
C17_State ==
    /\ \A k \in Processed :
          is_probably_pdf(links[k]) =>
              \E r \in Records : r.pdf_url = links[k] /\ r.source_page = Get(page_url)
    /\ run = 2 =>
          /\ CanContinue
          /\ IsPrefix(fetch_log, Get(first).fetch_log)
          /\ IsPrefix(results, Get(first).results)
          /\ pc = "done" =>
                /\ fetch_log = Get(first).fetch_log
                /\ results = Get(first).results

C17_Step ==
    /\ run' # run <=> include_external_pdfs' # include_external_pdfs
    /\ run' # run => run = 1 /\ pc = "done" /\ tape' = tape

----------------------------------------------------------------------------

\* the chunks iter_content has yielded so far
Received == SubSeq(dl.body, 1, Len(dl.body) - Len(dl.rest))

\* the bytes of the chunks, in their order
RECURSIVE Flat(_)
Flat(chunks) == IF chunks = <<>> THEN <<>> ELSE Head(chunks) \o Flat(Tail(chunks))

\* C18: all along the streaming loop the bytes fed to the hash are the
\* bytes in the file, which are the bytes of the chunks received, in their
\* order, and the count is their number; an empty chunk changes neither;
\* when the body ends, the digest returned is the digest of the content of
\* the file and the count returned is the length of the file.
C18_State ==
    pc = "stream" =>
        /\ fs[pdf_path] = Some(dl.h)
        /\ dl.h = Flat(Received)
        /\ dl.total = Len(dl.h)

C18_Step ==
    /\ (pc = "stream" /\ dl.rest # <<>> /\ Head(dl.rest) = <<>>)
          => fs' = fs /\ dl'.h = dl.h /\ dl'.total = dl.total
    /\ (pc = "stream" /\ dl.rest = <<>> /\ dl.end = "eof")
          => /\ fs' = fs
             /\ Get(fs[pdf_path]) = Flat(dl.body)
             /\ loc'.sha256 = Some(hexdigest(Get(fs[pdf_path])).text)
             /\ loc'.dl_bytes = Some(Len(Get(fs[pdf_path])))

C18_HashOfFile == []C18_State /\ [][C18_Step]_vars

\* a body of two different chunks was downloaded whole
C18_Witness ==
    /\ pc = "pdffonts"
    /\ loc.sha256 = Some(hexdigest(<<"1", "2", "1">>).text)
    /\ fs[pdf_path] = Some(<<"1", "2", "1">>)

----------------------------------------------------------------------------

\* the URLs of the model that are PDF-shaped
C19_PdfUrls == {u \in Urls : is_probably_pdf(u)}

\* the URLs that can be fetched as pages
C19_Pages == {StartUrl} \cup (site.urls \ C19_PdfUrls)

\* the longest the frontier gets: the start URL and every link of every page
C19_QueueMax == 1 + MaxLinks * Cardinality(C19_Pages)

\* the most steps one link takes, from the for loop back to the for loop
C19_LinkSteps == 7 + MaxChunks

\* the steps left for the current link
C19_StageLeft ==
    CASE pc = "download" -> 6 + MaxChunks
      [] pc = "stream" -> 5 + Len(dl.rest)
      [] pc = "pdffonts" -> 4
      [] pc = "pdftotext" -> 3
      [] pc = "verapdf" -> 2
      [] pc = "append" -> 1
      [] OTHER -> 0

\* a bound on the steps left before crawl() returns
C19_Measure ==
    IF pc = "done" THEN 0
    ELSE 1 + (Cardinality(C19_Pages) - Cardinality(seen_pages))
                * (C19_QueueMax + 2 + MaxLinks * C19_LinkSteps)
           + (IF pc = "while" THEN Len(queue)
              ELSE C19_QueueMax + 1
                   + (Len(links) - li + (IF pc = "for" THEN 1 ELSE 0)) * C19_LinkSteps
                   + C19_StageLeft)

\* C19 as stated: crawl() returns with the frontier empty, with as many
\* pages fetched as max_pages says, or after the first page without
\* recursion.
C19_ExitAsStated ==
    pc = "done" =>
        \/ queue = <<>>
        \/ Cardinality(seen_pages) = max_pages
        \/ ~recursive /\ Len(fetch_log) = 1

\* C19: on a site whose pages link each other, themselves and the start
\* page, whatever max_pages and the flags, every position before the return
\* has a next step, every step lowers a bound on the steps left, and
\* crawl() returns with the frontier empty, with the page limit reached
\* (max_pages pages fetched, or none when max_pages is negative), or after
\* the first page without recursion.
C19_State ==
    /\ CanContinue
    /\ C19_Measure >= 0
    /\ Len(queue) <= C19_QueueMax
    /\ seen_pages \subseteq C19_Pages
    /\ pc = "done" =>
          \/ queue = <<>>
          \/ Cardinality(seen_pages) = (IF max_pages > 0 THEN max_pages ELSE 0)
          \/ ~recursive /\ Len(fetch_log) = 1

C19_Step == C19_Measure' < C19_Measure

C19_Terminates == []C19_State /\ [][C19_Step]_vars

\* a recursive crawl of two pages returned below the page limit, with an
\* empty frontier and a record
C19_Witness ==
    /\ pc = "done"
    /\ recursive
    /\ queue = <<>>
    /\ Len(fetch_log) = 2
    /\ max_pages = MaxPagesArg
    /\ results # <<>>

----------------------------------------------------------------------------

\* C20: in every record pdftotext_ok is set exactly when pdftotext_ran;
\* pdftotext_output is set exactly when pdftotext_ok is true;
\* pdftotext_bytes, pdftotext_chars and text_density are set together, and
\* only when pdftotext_ok is true and bytes_downloaded > 0; verapdf_passed
\* is set only when verapdf_ran; has_text_layer is set exactly when
\* fonts_count is, and then says whether fonts_count > 0.
C20_RecordsConsistent ==
    \A r \in Records :
        /\ r.pdftotext_ok # None <=> r.pdftotext_ran
        /\ r.pdftotext_output # None <=> r.pdftotext_ok = Some(TRUE)
        /\ r.pdftotext_bytes # None <=> r.pdftotext_chars # None
        /\ r.pdftotext_chars # None <=> r.text_density # None
        /\ r.pdftotext_bytes # None =>
              /\ r.pdftotext_ok = Some(TRUE)
              /\ r.bytes_downloaded # None
              /\ Get(r.bytes_downloaded) > 0
        /\ r.verapdf_passed # None => r.verapdf_ran
        /\ r.has_text_layer # None <=> r.fonts_count # None
        /\ r.has_text_layer # None =>
              Get(r.has_text_layer) = (Get(r.fonts_count) > 0)

\* a record of a PDF with two fonts, whose extraction failed, with a
\* conformance verdict
C20_Witness ==
    \E r \in Records :
        /\ r.fonts_count = Some(2)
        /\ r.pdftotext_ok = Some(FALSE)
        /\ r.verapdf_passed # None

====
